---- MODULE Spec2Model ----
(***************************************************************************)
(* A model of geoip-rs (src/src/main.rs): the HTTP handler `index` and the *)
(* pure functions it is built from.                                        *)
(*                                                                         *)
(* Text is modelled character by character: a Rust String / &str is a      *)
(* sequence of one-character strings, so that parsing, splitting, JSON     *)
(* serialisation and JSONP wrapping are computed the way the code computes *)
(* them.  Option<T> is a sequence of length 0 (None) or 1 (Some(x)).  A    *)
(* call that can panic returns [panic |-> message, val |-> value] with an  *)
(* empty message when it returns normally.                                 *)
(***************************************************************************)
EXTENDS Naturals, Sequences, FiniteSets, TLC

VARIABLES
    pc,           \* "idle" | "call" | "done": position of the request / call
    query,        \* QueryParams: [ip, lang, callback], each an Option<String>
    headers,      \* the request's HeaderMap: header name -> value bytes
    remote_addr,  \* req.connection_info().remote(): Option<&str>
    env,          \* process environment: variable name -> value
    fs,           \* readable files: path -> content
    lookup,       \* what data.db.lookup gives for a well-formed address
    args,         \* arguments of a pure function applied on its own
    result        \* outcome of the handler or of the function applied

vars == <<pc, query, headers, remote_addr, env, fs, lookup, args, result>>

(***************************************************************************)
(* Option and panics                                                       *)
(***************************************************************************)
None == <<>>
Some(x) == <<x>>
IsSome(o) == o # <<>>
IsNone(o) == o = <<>>

Ok(v) == [panic |-> "", val |-> v]
Panic(msg) == [panic |-> msg, val |-> <<>>]
Returned(r) == r.panic = ""

EmptyMap == <<>>

(***************************************************************************)
(* Bounds of the model                                                     *)
(***************************************************************************)
MaxIpLen == 3       \* longest generated `ip` query parameter
MaxHeaderLen == 2   \* longest generated X-Real-IP header value
MaxPeerLen == 3     \* longest generated peer address
MaxSubdivs == 2     \* longest subdivisions sequence of a City record
MaxCallbackLen == 1 \* longest generated `callback` query parameter

\* All character sequences over `alphabet` of length at most n.
StringsUpTo(alphabet, n) == UNION {[1..k -> alphabet] : k \in 0..n}

(***************************************************************************)
(* Characters                                                              *)
(***************************************************************************)
Digit == {"0", "1", "2", "3", "4", "5", "6", "7", "8", "9"}
HexDigit == Digit \cup {"a", "b", "c", "d", "e", "f", "A", "B", "C", "D", "E", "F"}

DigitVal(c) ==
    CASE c = "0" -> 0 [] c = "1" -> 1 [] c = "2" -> 2 [] c = "3" -> 3
      [] c = "4" -> 4 [] c = "5" -> 5 [] c = "6" -> 6 [] c = "7" -> 7
      [] c = "8" -> 8 [] c = "9" -> 9

\* A header value is a sequence of bytes.  "<FF>" stands for one byte that is
\* not visible ASCII (obs-text, 0x80..0xFF), which a HeaderValue may hold.
OpaqueByte == "<FF>"

(***************************************************************************)
(* str::split                                                              *)
(***************************************************************************)
\* s.split(c): the segments between the occurrences of c, in order; always at
\* least one segment (the whole string when c does not occur).
Split(s, c) ==
    LET P == {i \in 1..Len(s) : s[i] = c}
        n == Cardinality(P)
        sep(k) == IF k = 0 THEN 0
                  ELSE IF k = n + 1 THEN Len(s) + 1
                  ELSE CHOOSE p \in P : Cardinality({q \in P : q < p}) = k - 1
    IN  [k \in 1..(n + 1) |-> SubSeq(s, sep(k - 1) + 1, sep(k) - 1)]

\* Iterator::take(n)
Take(seq, n) == SubSeq(seq, 1, IF Len(seq) < n THEN Len(seq) ELSE n)

\* Iterator::last(): Option of the last item
Last(seq) == IF seq = <<>> THEN None ELSE Some(seq[Len(seq)])

(***************************************************************************)
(* str::parse::<Ipv4Addr>() and str::parse::<Ipv6Addr>()                   *)
(***************************************************************************)
\* One decimal octet: 1 to 3 digits, no leading zero, at most 255.
IsOctet(g) ==
    /\ Len(g) \in 1..3
    /\ \A i \in 1..Len(g) : g[i] \in Digit
    /\ (Len(g) > 1 => g[1] # "0")
    /\ LET v == IF Len(g) = 1 THEN DigitVal(g[1])
                ELSE IF Len(g) = 2 THEN 10 * DigitVal(g[1]) + DigitVal(g[2])
                ELSE 100 * DigitVal(g[1]) + 10 * DigitVal(g[2]) + DigitVal(g[3])
       IN  v <= 255

IsIpv4(s) ==
    LET p == Split(s, ".")
    IN  Len(p) = 4 /\ \A i \in 1..4 : IsOctet(p[i])

\* One 16-bit group: 1 to 4 hexadecimal digits.
IsHexGroup(g) == Len(g) \in 1..4 /\ \A i \in 1..Len(g) : g[i] \in HexDigit

\* The number of 16-bit groups a colon-separated run stands for, None when it
\* is not one.  With v4, the last item may be a dotted IPv4 address, which
\* stands for two groups.
Groups(part, v4) ==
    IF part = <<>> THEN Some(0)
    ELSE LET p == Split(part, ":")
             n == Len(p)
             tailV4 == v4 /\ IsIpv4(p[n])
         IN  IF /\ \A i \in 1..(n - 1) : IsHexGroup(p[i])
                /\ (IsHexGroup(p[n]) \/ tailV4)
             THEN Some(IF tailV4 THEN n + 1 ELSE n)
             ELSE None

\* Eight groups, or fewer around one "::" that stands for at least one.
IsIpv6(s) ==
    LET dc == {i \in 1..(Len(s) - 1) : s[i] = ":" /\ s[i + 1] = ":"}
    IN  IF dc = {} THEN Groups(s, TRUE) = Some(8)
        ELSE IF Cardinality(dc) = 1
        THEN LET i == CHOOSE j \in dc : TRUE
                 h == Groups(SubSeq(s, 1, i - 1), FALSE)
                 t == Groups(SubSeq(s, i + 2, Len(s)), TRUE)
             IN  IsSome(h) /\ IsSome(t) /\ h[1] + t[1] <= 7
        ELSE FALSE

\* str::parse::<IpAddr>()
IsIpAddr(s) == IsIpv4(s) \/ IsIpv6(s)

(***************************************************************************)
(* HeaderMap::get and HeaderValue::to_str                                  *)
(***************************************************************************)
HeaderGet(h, name) == IF name \in DOMAIN h THEN Some(h[name]) ELSE None

\* to_str is Ok only when every byte is visible ASCII.
ToStrIsOk(v) == \A i \in 1..Len(v) : v[i] # OpaqueByte

(***************************************************************************)
(* fn ip_address_to_resolve                                                *)
(***************************************************************************)
ip_address_to_resolve_HeaderFirst(ip, hdrs, remote) ==
    LET hv == HeaderGet(hdrs, "X-Real-IP")
    IN  IF IsSome(hv)
        THEN IF ToStrIsOk(hv[1]) THEN Ok(hv[1]) ELSE Panic("to_str")
        ELSE IF IsSome(ip) /\ IsIpAddr(ip[1]) THEN Ok(ip[1])
        ELSE IF IsSome(remote) THEN Ok(Last(Take(Split(remote[1], ":"), 1))[1])
        ELSE Panic("unable to find ip address to resolve")

ip_address_to_resolve_WholePeer(ip, hdrs, remote) ==
    LET hv == HeaderGet(hdrs, "X-Real-IP")
    IN  IF IsSome(ip) /\ IsIpAddr(ip[1]) THEN Ok(ip[1])
        ELSE IF IsSome(hv)
        THEN IF ToStrIsOk(hv[1]) THEN Ok(hv[1]) ELSE Panic("to_str")
        ELSE IF IsSome(remote) THEN Ok(remote[1])
        ELSE Panic("unable to find ip address to resolve")

ip_address_to_resolve(ip, hdrs, remote) ==
    LET filtered == IF IsSome(ip) /\ (IsIpv4(ip[1]) \/ IsIpv6(ip[1]))
                    THEN ip ELSE None
        hv == HeaderGet(hdrs, "X-Real-IP")
    IN  IF IsSome(filtered) THEN Ok(filtered[1])
        ELSE IF IsSome(hv)
        THEN IF ToStrIsOk(hv[1]) THEN Ok(hv[1]) ELSE Panic("to_str")
        ELSE IF IsSome(remote)
        THEN LET seg == Last(Take(Split(remote[1], ":"), 1))
             IN  IF IsSome(seg) THEN Ok(seg[1]) ELSE Panic("unwrap")
        ELSE Panic("unable to find ip address to resolve")

(***************************************************************************)
(* Sample text                                                             *)
(***************************************************************************)
S_1_2_3_4 == <<"1", ".", "2", ".", "3", ".", "4">>
S_999 == <<"9", "9", "9", ".", "9", "9", "9", ".", "9", "9", "9", ".", "9", "9", "9">>
S_203_0_113_5 == <<"2", "0", "3", ".", "0", ".", "1", "1", "3", ".", "5">>
S_Peer == S_203_0_113_5 \o <<":", "5", "4", "3", "2", "1">>
S_V6 == <<"2", "0", "0", "1", ":", "d", "b", "8", ":", ":", "1">>
S_V6Mapped == <<":", ":", "f", "f", "f", "f", ":", "1", ".", "2", ".", "3", ".", "4">>
S_V6Full == <<"1", ":", "2", ":", "3", ":", "4", ":", "5", ":", "6", ":", "7", ":", "8">>
S_256 == <<"2", "5", "6", ".", "1", ".", "1", ".", "1">>
S_V6Peer == <<"[", ":", ":", "1", "]", ":", "8", "0">>

(***************************************************************************)
(* Inputs of the address resolver                                          *)
(***************************************************************************)
IpParams ==
    {None} \cup {Some(s) : s \in StringsUpTo({"1", ":", "."}, MaxIpLen)
                                 \cup {S_1_2_3_4, S_999, S_V6, S_V6Mapped, S_V6Full, S_256}}

HeaderMaps ==
    {EmptyMap} \cup {("X-Real-IP" :> v) : v \in StringsUpTo({"1", OpaqueByte}, MaxHeaderLen)
                                                \cup {S_1_2_3_4, S_999}}

RemoteAddrs ==
    {None} \cup {Some(s) : s \in StringsUpTo({"1", ":"}, MaxPeerLen) \cup {S_Peer, S_V6Peer}}

NoQuery == [ip |-> None, lang |-> None, callback |-> None]

InitResolver ==
    /\ pc = "call"
    /\ \E ip \in IpParams : query = [NoQuery EXCEPT !.ip = ip]
    /\ headers \in HeaderMaps
    /\ remote_addr \in RemoteAddrs
    /\ env = EmptyMap
    /\ fs = EmptyMap
    /\ lookup = None
    /\ args = <<"ip_address_to_resolve">>
    /\ result = None

ResolveAddress ==
    /\ pc = "call"
    /\ args[1] = "ip_address_to_resolve"
    /\ result' = ip_address_to_resolve(query.ip, headers, remote_addr)
    /\ pc' = "done"
    /\ UNCHANGED <<query, headers, remote_addr, env, fs, lookup, args>>

NextResolver == ResolveAddress

SpecResolver == InitResolver /\ [][NextResolver]_vars

(***************************************************************************)
(* serde_json::Value, as far as the localization table needs it            *)
(***************************************************************************)
JNull == [t |-> "null", s |-> <<>>, m |-> EmptyMap]
JString(str) == [t |-> "string", s |-> str, m |-> EmptyMap]
JNumber == [t |-> "number", s |-> <<>>, m |-> EmptyMap]
JObject(map) == [t |-> "object", s |-> <<>>, m |-> map]

\* impl Index<&str> for Value: the member, Null when the value is no object
\* or has no such key.
ValueIndex(v, key) == IF v.t = "object" /\ key \in DOMAIN v.m THEN v.m[key] ELSE JNull

\* Value::as_str
AsStr(v) == IF v.t = "string" THEN Some(v.s) ELSE None

\* A file's text is either a JSON document (kept as the Value it parses to)
\* or text that is not JSON.
NotJson == [json |-> None]
JsonText(v) == [json |-> Some(v)]

\* str::parse::<Value>(): Ok(value) or Err
ParseValue(file) == file.json

(***************************************************************************)
(* fn get_value                                                            *)
(***************************************************************************)
get_value(file, lang, code) ==
    LET content == ParseValue(file)
    IN  IF IsNone(content) THEN Panic("parse")
        ELSE IF ValueIndex(ValueIndex(content[1], lang), code).t = "null" THEN Ok(<<>>)
        ELSE LET str == AsStr(ValueIndex(ValueIndex(content[1], lang), code))
             IN  IF IsSome(str) THEN Ok(str[1]) ELSE Panic("as_str")

(***************************************************************************)
(* fn get_localized_country_name                                           *)
(***************************************************************************)
\* env::var
EnvVar(name) == IF name \in DOMAIN env THEN Some(env[name]) ELSE None

\* fs::read_to_string
ReadToString(path) == IF path \in DOMAIN fs THEN Some(fs[path]) ELSE None

get_localized_country_name(lang, code) ==
    LET path == EnvVar("GEOIP_RS_COUNTRY_NAMES")
    IN  IF IsSome(path)
        THEN LET file == ReadToString(path[1])
             IN  IF IsNone(file) THEN Panic("read_to_string")
                 ELSE get_value(file[1], lang, code)
        ELSE Ok(<<>>)

(***************************************************************************)
(* fn get_language                                                         *)
(***************************************************************************)
S_en == <<"e", "n">>
S_fr == <<"f", "r">>
S_de == <<"d", "e">>
S_FR == <<"F", "R">>
S_IT == <<"I", "T">>
S_Francia == <<"F", "r", "a">>
S_Italie == <<"I", "t", "a">>

get_language(lang) == IF IsSome(lang) THEN lang[1] ELSE S_en

(***************************************************************************)
(* Inputs of the localizer                                                 *)
(***************************************************************************)
\* Every function from a subset of `keys` to `vals`.
PartialMaps(keys, vals) == UNION {[d -> vals] : d \in SUBSET keys}

CountryTables == PartialMaps({S_FR, S_IT}, {JString(S_Francia), JString(S_Italie)})

\* Well-formed tables {lang: {code: name}}, tables whose language entry is
\* no object, and a table holding a number where a name belongs.
LocalizationFiles ==
    {NotJson, JsonText(JObject(S_fr :> JObject(S_FR :> JNumber)))}
        \cup {JsonText(JObject(m)) :
                m \in PartialMaps({S_fr, S_de},
                                  {JObject(t) : t \in CountryTables} \cup {JString(S_Francia)})}

NamesPath == "country_names.json"

Environments == {EmptyMap, ("GEOIP_RS_COUNTRY_NAMES" :> NamesPath)}

FileSystems == {EmptyMap} \cup {(NamesPath :> f) : f \in LocalizationFiles}

InitLocalizer ==
    /\ pc = "call"
    /\ query = NoQuery
    /\ headers = EmptyMap
    /\ remote_addr = None
    /\ env \in Environments
    /\ fs \in FileSystems
    /\ lookup = None
    /\ \E lang \in {S_en, S_fr, S_de}, code \in {<<>>, S_FR, S_IT} :
            args = <<"get_localized_country_name", lang, code>>
    /\ result = None

LocalizeCountryName ==
    /\ pc = "call"
    /\ args[1] = "get_localized_country_name"
    /\ result' = get_localized_country_name(args[2], args[3])
    /\ pc' = "done"
    /\ UNCHANGED <<query, headers, remote_addr, env, fs, lookup, args>>

NextLocalizer == LocalizeCountryName

SpecLocalizer == InitLocalizer /\ [][NextLocalizer]_vars

(***************************************************************************)
(* Option combinators                                                      *)
(***************************************************************************)
\* Option::unwrap_or
UnwrapOr(o, default) == IF IsSome(o) THEN o[1] ELSE default

\* group.as_ref().and_then(|g| g.leaf.as_ref()): a leaf of an optional group
Leaf(group, leaf) == IF IsSome(group) THEN group[1][leaf] ELSE None

\* BTreeMap::get
MapGet(m, key) == IF key \in DOMAIN m THEN Some(m[key]) ELSE None

\* Vec::get (zero-based)
VecGet(v, i) == IF i + 1 <= Len(v) THEN Some(v[i + 1]) ELSE None

(***************************************************************************)
(* The response structs.  A struct is the sequence of its fields in        *)
(* declaration order, each <<name, value>>; a value is a string, an f64    *)
(* (in tenths) or, for a field left without a value, null.                 *)
(***************************************************************************)
FStr(str) == [t |-> "str", v |-> str]
FF64(x) == [t |-> "f64", v |-> x]
FNull == [t |-> "null", v |-> <<>>]

K_ipAddress == <<"i", "p", "A", "d", "d", "r", "e", "s", "s">>
K_latitude == <<"l", "a", "t", "i", "t", "u", "d", "e">>
K_longitude == <<"l", "o", "n", "g", "i", "t", "u", "d", "e">>
K_postalCode == <<"p", "o", "s", "t", "a", "l", "C", "o", "d", "e">>
K_continentCode == <<"c", "o", "n", "t", "i", "n", "e", "n", "t", "C", "o", "d", "e">>
K_continentName == <<"c", "o", "n", "t", "i", "n", "e", "n", "t", "N", "a", "m", "e">>
K_countryCode == <<"c", "o", "u", "n", "t", "r", "y", "C", "o", "d", "e">>
K_countryLabel == <<"c", "o", "u", "n", "t", "r", "y", "L", "a", "b", "e", "l">>
K_countryName == <<"c", "o", "u", "n", "t", "r", "y", "N", "a", "m", "e">>
K_regionCode == <<"r", "e", "g", "i", "o", "n", "C", "o", "d", "e">>
K_regionName == <<"r", "e", "g", "i", "o", "n", "N", "a", "m", "e">>
K_provinceCode == <<"p", "r", "o", "v", "i", "n", "c", "e", "C", "o", "d", "e">>
K_provinceName == <<"p", "r", "o", "v", "i", "n", "c", "e", "N", "a", "m", "e">>
K_cityName == <<"c", "i", "t", "y", "N", "a", "m", "e">>
K_timeZone == <<"t", "i", "m", "e", "Z", "o", "n", "e">>
K_ip_address == <<"i", "p", "_", "a", "d", "d", "r", "e", "s", "s">>
NonResolvedIPResponse(ip_address) == <<  <<K_ip_address, FStr(ip_address)>>  >>

\* names.and_then(|names| names.get(lang)): an entry of an optional names map
NameIn(names, lang) == IF IsSome(names) THEN MapGet(names[1], lang) ELSE None

\* The Ok(geoip) arm's two selections from geoip.subdivisions
Region(geoip) ==
    LET nonEmpty == IF IsSome(geoip.subdivisions) /\ geoip.subdivisions[1] # <<>>
                    THEN geoip.subdivisions ELSE None
    IN  IF IsSome(nonEmpty) THEN VecGet(nonEmpty[1], 0) ELSE None

Province_First(geoip) ==
    LET several == IF IsSome(geoip.subdivisions) /\ Len(geoip.subdivisions[1]) > 1
                   THEN geoip.subdivisions ELSE None
    IN  IF IsSome(several) THEN VecGet(several[1], 0) ELSE None

Province(geoip) ==
    LET several == IF IsSome(geoip.subdivisions) /\ Len(geoip.subdivisions[1]) > 1
                   THEN geoip.subdivisions ELSE None
    IN  IF IsSome(several) THEN VecGet(several[1], 1) ELSE None

\* group ... names.get("en") ... unwrap_or("")
EnName(group) == UnwrapOr(NameIn(Leaf(group, "names"), S_en), <<>>)

\* group ... iso_code ... unwrap_or("")
IsoCode(group) == UnwrapOr(Leaf(group, "iso_code"), <<>>)

CountryLabel_English(geoip, language, localize_country_name) ==
    UnwrapOr(IF IsSome(NameIn(Leaf(geoip.country, "names"), language))
             THEN NameIn(Leaf(geoip.country, "names"), language)
             ELSE NameIn(Leaf(geoip.country, "names"), S_en),
             localize_country_name)

CountryLabel(geoip, language, localize_country_name) ==
    UnwrapOr(NameIn(Leaf(geoip.country, "names"), language), localize_country_name)

CountryName_NoLocalizer(geoip, language, localize_country_name) ==
    UnwrapOr(NameIn(Leaf(geoip.country, "names"), S_en), <<>>)

CountryName(geoip, language, localize_country_name) ==
    UnwrapOr(NameIn(Leaf(geoip.country, "names"), S_en), localize_country_name)

PostalCode_Nullable(geoip) ==
    IF IsSome(Leaf(geoip.postal, "code")) THEN FStr(Leaf(geoip.postal, "code")[1])
    ELSE FNull

PostalCode(geoip) == FStr(UnwrapOr(Leaf(geoip.postal, "code"), <<>>))

ResolvedIPResponse(ip_address, language, geoip, localize_country_name) ==
    << <<K_ipAddress, FStr(ip_address)>>,
       <<K_latitude, FF64(UnwrapOr(Leaf(geoip.location, "latitude"), 0))>>,
       <<K_longitude, FF64(UnwrapOr(Leaf(geoip.location, "longitude"), 0))>>,
       <<K_postalCode, PostalCode(geoip)>>,
       <<K_continentCode, FStr(UnwrapOr(Leaf(geoip.continent, "code"), <<>>))>>,
       <<K_continentName, FStr(EnName(geoip.continent))>>,
       <<K_countryCode, FStr(IsoCode(geoip.country))>>,
       <<K_countryLabel, FStr(CountryLabel(geoip, language, localize_country_name))>>,
       <<K_countryName, FStr(CountryName(geoip, language, localize_country_name))>>,
       <<K_regionCode, FStr(IsoCode(Region(geoip)))>>,
       <<K_regionName, FStr(EnName(Region(geoip)))>>,
       <<K_provinceCode, FStr(IsoCode(Province(geoip)))>>,
       <<K_provinceName, FStr(EnName(Province(geoip)))>>,
       <<K_cityName, FStr(EnName(geoip.city))>>,
       <<K_timeZone, FStr(UnwrapOr(Leaf(geoip.location, "time_zone"), <<>>))>> >>

\* The Ok(geoip) arm of `match lookup`, up to the struct it builds: it calls
\* the localizer first, whatever the record holds.
Resolved(ip_address, language, geoip) ==
    LET localize_country_name ==
            get_localized_country_name(language, IsoCode(geoip.country))
    IN  IF Returned(localize_country_name)
        THEN Ok(ResolvedIPResponse(ip_address, language, geoip,
                                   localize_country_name.val))
        ELSE Panic(localize_country_name.panic)

(***************************************************************************)
(* Raw geo records (maxminddb::geoip2::City), every group and every leaf   *)
(* an Option                                                               *)
(***************************************************************************)
N_tz == <<"U", "T", "C">>
N_postal == <<"7", "5">>
N_EU == <<"E", "U">>
N_Europe == <<"E", "u", "r", "o", "p", "e">>
N_Europe_fr == <<"E", "u", "r", "_", "f", "r">>
N_France == <<"F", "r", "a", "n", "c", "e">>
N_France_fr == <<"F", "r", "_", "f", "r">>
N_Paris == <<"P", "a", "r", "i", "s">>
N_Paris_fr == <<"P", "a", "r", "_", "f", "r">>
N_IDF == <<"I", "D", "F">>
N_Ile == <<"I", "l", "e">>
N_75 == <<"7", "5">>
N_Seine == <<"S", "e", "i", "n", "e">>

Opt(S) == {None} \cup {Some(x) : x \in S}

\* names maps of a group other than the country: no map, a map without an
\* English entry, a map with one
NamesOf(en, fr) == {None, Some(S_fr :> fr), Some(S_en :> en @@ S_fr :> fr)}

Locations ==
    Opt([latitude : Opt({488}), longitude : Opt({23}), time_zone : Opt({N_tz})])

Postals == Opt([code : Opt({N_postal})])

Continents == Opt([code : Opt({N_EU}), names : NamesOf(N_Europe, N_Europe_fr)])

Countries ==
    Opt([iso_code : Opt({S_FR}),
         names : Opt(PartialMaps({S_en, S_fr}, {N_France, N_France_fr}) \cap
                     {m \in PartialMaps({S_en, S_fr}, {N_France, N_France_fr}) :
                        /\ (S_en \in DOMAIN m => m[S_en] = N_France)
                        /\ (S_fr \in DOMAIN m => m[S_fr] = N_France_fr)})])

CityGroups == Opt([names : NamesOf(N_Paris, N_Paris_fr)])

SubdivisionEntries ==
    [iso_code : Opt({N_IDF}), names : Opt({S_en :> N_Ile})]
        \cup [iso_code : Opt({N_75}), names : Opt({S_en :> N_Seine})]

SubdivisionLists == Opt(UNION {[1..k -> SubdivisionEntries] : k \in 0..MaxSubdivs})

FullLocation == Some([latitude |-> Some(488), longitude |-> Some(23), time_zone |-> Some(N_tz)])
FullPostal == Some([code |-> Some(N_postal)])
FullContinent ==
    Some([code |-> Some(N_EU), names |-> Some(S_en :> N_Europe @@ S_fr :> N_Europe_fr)])
FullCountry ==
    Some([iso_code |-> Some(S_FR), names |-> Some(S_en :> N_France @@ S_fr :> N_France_fr)])
FullCity == Some([names |-> Some(S_en :> N_Paris @@ S_fr :> N_Paris_fr)])
FullSubdivisions ==
    Some(<< [iso_code |-> Some(N_IDF), names |-> Some(S_en :> N_Ile)],
            [iso_code |-> Some(N_75), names |-> Some(S_en :> N_Seine)] >>)

EmptyCity ==
    [location |-> None, postal |-> None, continent |-> None, country |-> None,
     subdivisions |-> None, city |-> None]

FullCityRecord ==
    [location |-> FullLocation, postal |-> FullPostal, continent |-> FullContinent,
     country |-> FullCountry, subdivisions |-> FullSubdivisions, city |-> FullCity]

\* Every combination of location, postal, continent and city, each group
\* absent or with any of its leaves absent, with the country and the
\* subdivisions absent or complete; and every combination of country and
\* subdivisions, with the other groups absent or complete.
Cities ==
    [location : Locations, postal : Postals, continent : Continents,
     city : CityGroups, country : {None, FullCountry},
     subdivisions : {None, FullSubdivisions}]
        \cup {[r EXCEPT !.country = c, !.subdivisions = sd] :
                r \in {EmptyCity, FullCityRecord}, c \in Countries,
                sd \in SubdivisionLists}

(***************************************************************************)
(* Inputs of the record mapper                                             *)
(***************************************************************************)
\* The localization set-ups: no variable; a variable naming a file that does
\* not exist; a variable naming a table with entries for some languages.
Localizations ==
    {[env |-> EmptyMap, fs |-> EmptyMap],
     [env |-> ("GEOIP_RS_COUNTRY_NAMES" :> NamesPath), fs |-> EmptyMap]}
        \cup {[env |-> ("GEOIP_RS_COUNTRY_NAMES" :> NamesPath),
               fs |-> (NamesPath :> JsonText(JObject(m)))] :
                m \in PartialMaps({S_en, S_fr}, {JObject(S_FR :> JString(S_Francia))})}

InitMapper ==
    /\ pc = "call"
    /\ query = NoQuery
    /\ headers = EmptyMap
    /\ remote_addr = None
    /\ \E l \in Localizations : env = l.env /\ fs = l.fs
    /\ lookup = None
    /\ \E language \in {S_en, S_fr}, geoip \in Cities :
            args = <<"Resolved", S_1_2_3_4, language, geoip>>
    /\ result = None

MapRecord ==
    /\ pc = "call"
    /\ args[1] = "Resolved"
    /\ result' = Resolved(args[2], args[3], args[4])
    /\ pc' = "done"
    /\ UNCHANGED <<query, headers, remote_addr, env, fs, lookup, args>>

NextMapper == MapRecord

SpecMapper == InitMapper /\ [][NextMapper]_vars

(***************************************************************************)
(* serde_json::to_string of a response struct                              *)
(***************************************************************************)
DigitChar(d) ==
    CASE d = 0 -> "0" [] d = 1 -> "1" [] d = 2 -> "2" [] d = 3 -> "3"
      [] d = 4 -> "4" [] d = 5 -> "5" [] d = 6 -> "6" [] d = 7 -> "7"
      [] d = 8 -> "8" [] d = 9 -> "9"

RECURSIVE Decimal(_)
Decimal(n) == IF n < 10 THEN <<DigitChar(n)>>
              ELSE Decimal(n \div 10) \o <<DigitChar(n % 10)>>

\* An f64 held in tenths prints with one fractional digit: 0.0, 48.8.
FormatF64(x) == Decimal(x \div 10) \o <<".">> \o <<DigitChar(x % 10)>>

\* A quote or a backslash is escaped with a backslash.
RECURSIVE Escape(_)
Escape(str) ==
    IF str = <<>> THEN <<>>
    ELSE (IF Head(str) \in {"\"", "\\"} THEN <<"\\", Head(str)>> ELSE <<Head(str)>>)
            \o Escape(Tail(str))

JsonString(str) == <<"\"">> \o Escape(str) \o <<"\"">>

JsonValue(v) ==
    CASE v.t = "str" -> JsonString(v.v)
      [] v.t = "f64" -> FormatF64(v.v)
      [] v.t = "null" -> <<"n", "u", "l", "l">>

RECURSIVE JsonFields(_)
JsonFields(fields) ==
    IF fields = <<>> THEN <<>>
    ELSE JsonString(Head(fields)[1]) \o <<":">> \o JsonValue(Head(fields)[2])
            \o (IF Tail(fields) = <<>> THEN <<>> ELSE <<",">>)
            \o JsonFields(Tail(fields))

to_string(struct) == <<"{">> \o JsonFields(struct) \o <<"}">>

(***************************************************************************)
(* async fn index                                                          *)
(***************************************************************************)
\* Result<City, MaxMindDBError>
ResOk(city) == [ok |-> TRUE, v |-> <<city>>]
ResErr == [ok |-> FALSE, v |-> <<>>]

HttpResponse(status, content_type, body) ==
    [status |-> status, content_type |-> content_type, body |-> body]

\* `match query.callback`: the envelope of the serialised record
Respond_Escaped(callback, geoip) ==
    IF IsSome(callback)
    THEN HttpResponse(200, "application/javascript; charset=utf-8",
                      <<";">> \o Escape(callback[1]) \o <<"(">> \o geoip \o <<")", ";">>)
    ELSE HttpResponse(200, "application/json; charset=utf-8", geoip)

Respond(callback, geoip) ==
    IF IsSome(callback)
    THEN HttpResponse(200, "application/javascript; charset=utf-8",
                      <<";">> \o callback[1] \o <<"(">> \o geoip \o <<")", ";">>)
    ELSE HttpResponse(200, "application/json; charset=utf-8", geoip)

\* The handler, from the request to the response or to the panic that ends it.
index(q, hdrs, remote, lk) ==
    LET language == get_language(q.lang)
        ip_address == ip_address_to_resolve(q.ip, hdrs, remote)
    IN  IF ~Returned(ip_address) THEN Panic(ip_address.panic)
        ELSE IF ~IsIpAddr(ip_address.val) THEN Panic("ip_address.parse")
        ELSE IF lk.ok
        THEN LET res == Resolved(ip_address.val, language, lk.v[1])
             IN  IF Returned(res) THEN Ok(Respond(q.callback, to_string(res.val)))
                 ELSE Panic(res.panic)
        ELSE Ok(Respond(q.callback, to_string(NonResolvedIPResponse(ip_address.val))))

(***************************************************************************)
(* The server: requests arrive and are handled one after the other         *)
(***************************************************************************)
PartialCity ==
    [EmptyCity EXCEPT !.country = Some([iso_code |-> Some(S_FR),
                                        names |-> Some(S_fr :> N_France_fr)]),
                      !.location = Some([latitude |-> Some(488), longitude |-> None,
                                         time_zone |-> None])]

Queries ==
    [ip : Opt({S_1_2_3_4, S_999, S_V6}),
     lang : Opt({S_fr}),
     callback : Opt(StringsUpTo({"c", "\""}, MaxCallbackLen))]

RequestHeaders ==
    {EmptyMap} \cup {("X-Real-IP" :> v) : v \in {S_203_0_113_5, S_999, <<OpaqueByte>>}}

Peers == Opt({S_Peer, S_V6Peer})

Lookups ==
    {ResErr}
        \cup {ResOk(c) : c \in {EmptyCity, PartialCity, FullCityRecord}}

Init ==
    /\ pc = "idle"
    /\ query = NoQuery
    /\ headers = EmptyMap
    /\ remote_addr = None
    /\ env \in {l.env : l \in Localizations}
    /\ fs = EmptyMap
    /\ lookup = None
    /\ args = <<"index">>
    /\ result = None

\* A request arrives; the files and the database are whatever they are then.
Receive ==
    /\ pc = "idle"
    /\ query' \in Queries
    /\ headers' \in RequestHeaders
    /\ remote_addr' \in Peers
    /\ fs' \in {l.fs : l \in {k \in Localizations : k.env = env}}
    /\ lookup' \in Lookups
    /\ result' = None
    /\ pc' = "call"
    /\ UNCHANGED <<env, args>>

Index ==
    /\ pc = "call"
    /\ args[1] = "index"
    /\ result' = index(query, headers, remote_addr, lookup)
    /\ pc' = "done"
    /\ UNCHANGED <<query, headers, remote_addr, env, fs, lookup, args>>

\* The response is sent (or the panic unwinds) and nothing of the request is
\* kept.
Complete ==
    /\ pc = "done"
    /\ args[1] = "index"
    /\ pc' = "idle"
    /\ query' = NoQuery
    /\ headers' = EmptyMap
    /\ remote_addr' = None
    /\ fs' = EmptyMap
    /\ lookup' = None
    /\ result' = None
    /\ UNCHANGED <<env, args>>

Next == Receive \/ Index \/ Complete

Spec == Init /\ [][Next]_vars

(***************************************************************************)
(* Properties of the address resolver (SpecResolver)                       *)
(***************************************************************************)
Resolving == pc = "done" /\ args[1] = "ip_address_to_resolve"

ExplicitIsLiteral == IsSome(query.ip) /\ IsIpAddr(query.ip[1])

\* The text before the first colon of s (all of s when it has no colon).
BeforeFirstColon(s) ==
    LET P == {i \in 1..Len(s) : s[i] = ":"}
    IN  IF P = {} THEN s
        ELSE SubSeq(s, 1, (CHOOSE p \in P : \A q \in P : p <= q) - 1)

\* C2: an explicit `ip` parameter that parses as an IPv4 or IPv6 literal is
\* returned as it is, whatever the X-Real-IP header and the peer address are
\* (present or absent, any value).
C2_ExplicitLiteralWins ==
    (Resolving /\ ExplicitIsLiteral) => result = Ok(query.ip[1])

C2_Witness ==
    /\ Resolving
    /\ query.ip = Some(S_V6Mapped)
    /\ "X-Real-IP" \in DOMAIN headers
    /\ headers["X-Real-IP"] = <<OpaqueByte>>
    /\ remote_addr = Some(S_Peer)
    /\ result = Ok(S_V6Mapped)

\* C3: with an explicit `ip` parameter that is no IPv4/IPv6 literal and an
\* X-Real-IP header present, the resolver returns the header value exactly,
\* whatever the value and whatever the peer address.
C3_HeaderValueExactly ==
    (Resolving /\ IsSome(query.ip) /\ ~ExplicitIsLiteral
        /\ "X-Real-IP" \in DOMAIN headers)
        => result = Ok(headers["X-Real-IP"])

\* C10: with no usable explicit `ip` parameter (absent or no literal) and no
\* X-Real-IP header, the resolver returns the text of the peer address before
\* its first colon.
C10_PeerFirstSegment ==
    (Resolving /\ ~ExplicitIsLiteral /\ "X-Real-IP" \notin DOMAIN headers
        /\ IsSome(remote_addr))
        => result = Ok(BeforeFirstColon(remote_addr[1]))

C10_Witness ==
    /\ Resolving
    /\ query.ip = Some(S_999)
    /\ headers = EmptyMap
    /\ remote_addr = Some(S_Peer)
    /\ result = Ok(S_203_0_113_5)

(***************************************************************************)
(* Properties of the localizer (SpecLocalizer)                             *)
(***************************************************************************)
\* The name the configured table holds for (lang, code): the string under
\* both keys when the variable is set, the file is readable JSON and holds
\* one; the empty string in every other case.
TableEntry(lang, code) ==
    IF /\ "GEOIP_RS_COUNTRY_NAMES" \in DOMAIN env
       /\ env["GEOIP_RS_COUNTRY_NAMES"] \in DOMAIN fs
       /\ IsSome(fs[env["GEOIP_RS_COUNTRY_NAMES"]].json)
    THEN LET doc == fs[env["GEOIP_RS_COUNTRY_NAMES"]].json[1]
         IN  IF /\ doc.t = "object"
                /\ lang \in DOMAIN doc.m
                /\ doc.m[lang].t = "object"
                /\ code \in DOMAIN doc.m[lang].m
                /\ doc.m[lang].m[code].t = "string"
             THEN doc.m[lang].m[code].s
             ELSE <<>>
    ELSE <<>>

\* C7: whatever the language, the country code and the localization set-up
\* (variable unset; a readable well-formed table; a missing, unreadable or
\* malformed source), the localizer returns a string and never fails: the
\* table's value when both keys are present, the empty string otherwise.
C7_LocalizerNeverFails ==
    (pc = "done" /\ args[1] = "get_localized_country_name")
        => (Returned(result) /\ result.val = TableEntry(args[2], args[3]))

(***************************************************************************)
(* Properties of the record mapper (SpecMapper)                            *)
(***************************************************************************)
Mapped == pc = "done" /\ args[1] = "Resolved" /\ Returned(result)

MappedLanguage == args[3]
MappedCity == args[4]

FixedKeys ==
    <<K_ipAddress, K_latitude, K_longitude, K_postalCode, K_continentCode,
      K_continentName, K_countryCode, K_countryLabel, K_countryName, K_regionCode,
      K_regionName, K_provinceCode, K_provinceName, K_cityName, K_timeZone>>

\* The value of the struct's field `key`
Field(struct, key) ==
    struct[CHOOSE i \in 1..Len(struct) : struct[i][1] = key][2]

\* Whether leaf `leaf` of an optional group is absent (with the group or alone)
LeafAbsent(group, leaf) == IsNone(group) \/ IsNone(group[1][leaf])

\* Whether an optional group has no name for `lang`
NameAbsent(group, lang) ==
    LeafAbsent(group, "names") \/ lang \notin DOMAIN group[1].names[1]

\* The i-th subdivision as an optional group
Subdivision(geoip, i) ==
    IF IsSome(geoip.subdivisions) /\ Len(geoip.subdivisions[1]) >= i
    THEN Some(geoip.subdivisions[1][i]) ELSE None

CountryCodeOrEmpty(geoip) ==
    IF LeafAbsent(geoip.country, "iso_code") THEN <<>> ELSE geoip.country[1].iso_code[1]

\* Every fixed key is there, in order and with a value, and every field whose
\* source is absent holds its default: 0.0 for the coordinates, the empty
\* string for the others, countryDefault for countryLabel and countryName.
FullyDefaulted(struct, geoip, language, countryDefault) ==
    /\ [i \in 1..Len(struct) |-> struct[i][1]] = FixedKeys
    /\ \A i \in 1..Len(struct) : struct[i][2].t \in {"str", "f64"}
    /\ LeafAbsent(geoip.location, "latitude") => Field(struct, K_latitude) = FF64(0)
    /\ LeafAbsent(geoip.location, "longitude") => Field(struct, K_longitude) = FF64(0)
    /\ LeafAbsent(geoip.location, "time_zone") => Field(struct, K_timeZone) = FStr(<<>>)
    /\ LeafAbsent(geoip.postal, "code") => Field(struct, K_postalCode) = FStr(<<>>)
    /\ LeafAbsent(geoip.continent, "code") => Field(struct, K_continentCode) = FStr(<<>>)
    /\ NameAbsent(geoip.continent, S_en) => Field(struct, K_continentName) = FStr(<<>>)
    /\ LeafAbsent(geoip.country, "iso_code") => Field(struct, K_countryCode) = FStr(<<>>)
    /\ NameAbsent(geoip.country, language)
            => Field(struct, K_countryLabel) = FStr(countryDefault)
    /\ NameAbsent(geoip.country, S_en)
            => Field(struct, K_countryName) = FStr(countryDefault)
    /\ LeafAbsent(Subdivision(geoip, 1), "iso_code")
            => Field(struct, K_regionCode) = FStr(<<>>)
    /\ NameAbsent(Subdivision(geoip, 1), S_en)
            => Field(struct, K_regionName) = FStr(<<>>)
    /\ LeafAbsent(Subdivision(geoip, 2), "iso_code")
            => Field(struct, K_provinceCode) = FStr(<<>>)
    /\ NameAbsent(Subdivision(geoip, 2), S_en)
            => Field(struct, K_provinceName) = FStr(<<>>)
    /\ NameAbsent(geoip.city, S_en) => Field(struct, K_cityName) = FStr(<<>>)

C5_RequestedLanguageFirst ==
    Mapped =>
        Field(result.val, K_countryName) =
            FStr(IF ~NameAbsent(MappedCity.country, MappedLanguage)
                 THEN MappedCity.country[1].names[1][MappedLanguage]
                 ELSE IF ~NameAbsent(MappedCity.country, S_en)
                 THEN MappedCity.country[1].names[1][S_en]
                 ELSE TableEntry(MappedLanguage, CountryCodeOrEmpty(MappedCity)))

\* C5 (amended): countryName is the English country name if present;
\* otherwise the localizer's name for (language, country code); otherwise the
\* empty string.  The name in the requested language plays no part.
C5_EnglishThenLocalizer ==
    Mapped =>
        Field(result.val, K_countryName) =
            FStr(IF ~NameAbsent(MappedCity.country, S_en)
                 THEN MappedCity.country[1].names[1][S_en]
                 ELSE TableEntry(MappedLanguage, CountryCodeOrEmpty(MappedCity)))

\* The example of the claim: no name for the requested language, "en":
\* "France", nothing from the localizer.
C5_Witness ==
    /\ Mapped
    /\ MappedLanguage = S_fr
    /\ ~LeafAbsent(MappedCity.country, "names")
    /\ MappedCity.country[1].names[1] = (S_en :> N_France)
    /\ TableEntry(S_fr, CountryCodeOrEmpty(MappedCity)) = <<>>
    /\ Field(result.val, K_countryName) = FStr(N_France)

\* C6: countryLabel is the country name in the requested language when the
\* names map has one; otherwise the localizer's name for (language, country
\* code or ""), the empty string when it has none.  It never falls back to
\* the English name.
C6_LabelNeverEnglishFallback ==
    Mapped =>
        Field(result.val, K_countryLabel) =
            FStr(IF ~NameAbsent(MappedCity.country, MappedLanguage)
                 THEN MappedCity.country[1].names[1][MappedLanguage]
                 ELSE TableEntry(MappedLanguage, CountryCodeOrEmpty(MappedCity)))

C6_Witness ==
    /\ Mapped
    /\ MappedLanguage = S_fr
    /\ ~LeafAbsent(MappedCity.country, "names")
    /\ MappedCity.country[1].names[1] = (S_en :> N_France)
    /\ TableEntry(S_fr, CountryCodeOrEmpty(MappedCity)) = <<>>
    /\ Field(result.val, K_countryLabel) = FStr(<<>>)

\* What the code and name fields show of a subdivision entry
CodeOf(entry) == IF IsSome(entry.iso_code) THEN entry.iso_code[1] ELSE <<>>
EnglishNameOf(entry) ==
    IF IsSome(entry.names) /\ S_en \in DOMAIN entry.names[1]
    THEN entry.names[1][S_en] ELSE <<>>

\* C9: region and province are taken by position: with no subdivisions
\* (group absent or empty) the four fields are empty; with one, the region
\* fields show it and the province fields are empty; with two (or more), the
\* region fields show index 0 and the province fields show index 1.
C9_RegionProvinceByPosition ==
    Mapped =>
        LET sd == IF IsSome(MappedCity.subdivisions)
                  THEN MappedCity.subdivisions[1] ELSE <<>>
            r == result.val
        IN  /\ Field(r, K_regionCode) = FStr(IF Len(sd) >= 1 THEN CodeOf(sd[1]) ELSE <<>>)
            /\ Field(r, K_regionName) =
                    FStr(IF Len(sd) >= 1 THEN EnglishNameOf(sd[1]) ELSE <<>>)
            /\ Field(r, K_provinceCode) =
                    FStr(IF Len(sd) >= 2 THEN CodeOf(sd[2]) ELSE <<>>)
            /\ Field(r, K_provinceName) =
                    FStr(IF Len(sd) >= 2 THEN EnglishNameOf(sd[2]) ELSE <<>>)

C9_Witness ==
    /\ Mapped
    /\ MappedCity.subdivisions = FullSubdivisions
    /\ Field(result.val, K_regionCode) = FStr(N_IDF)
    /\ Field(result.val, K_regionName) = FStr(N_Ile)
    /\ Field(result.val, K_provinceCode) = FStr(N_75)
    /\ Field(result.val, K_provinceName) = FStr(N_Seine)

(***************************************************************************)
(* Properties of the handler (Spec)                                        *)
(***************************************************************************)
Handled == pc = "done" /\ args[1] = "index"

\* The address the resolver yields for the request at hand
Attempted == ip_address_to_resolve(query.ip, headers, remote_addr)

\* {"ip_address":"<address>"}
UnresolvedJson(address) ==
    <<"{", "\"", "i", "p", "_", "a", "d", "d", "r", "e", "s", "s", "\"", ":", "\"">>
        \o address \o <<"\"", "}">>

\* The body that wraps `json` for the request's callback parameter
Enveloped(json) ==
    IF IsSome(query.callback)
    THEN <<";">> \o query.callback[1] \o <<"(">> \o json \o <<")", ";">>
    ELSE json

\* C1: for every request the resolver yields an address for, the handler
\* completes with HTTP 200 whatever the lookup outcome; when the lookup fails
\* (malformed address or no entry) the body is {"ip_address": <address>}.
C1_Always200 ==
    (Handled /\ Returned(Attempted)) =>
        /\ Returned(result)
        /\ result.val.status = 200
        /\ (~IsIpAddr(Attempted.val) \/ ~lookup.ok)
                => result.val.body = Enveloped(UnresolvedJson(Attempted.val))

\* C8: the envelope depends only on the callback parameter: without one the
\* body is the record's JSON and the content type application/json; with one
\* the body is ; callback ( json ); with the name verbatim and the content
\* type application/javascript.  For the resolved and the unresolved record.
C8_Envelope ==
    (Handled /\ Returned(result)) =>
        LET json == IF lookup.ok
                    THEN to_string(Resolved(Attempted.val, get_language(query.lang),
                                            lookup.v[1]).val)
                    ELSE UnresolvedJson(Attempted.val)
        IN  /\ result.val.body = Enveloped(json)
            /\ result.val.content_type =
                    IF IsSome(query.callback)
                    THEN "application/javascript; charset=utf-8"
                    ELSE "application/json; charset=utf-8"

C8_Witness ==
    /\ Handled
    /\ Returned(result)
    /\ lookup.ok
    /\ query.callback = Some(<<"\"">>)
    /\ result.val.content_type = "application/javascript; charset=utf-8"
    /\ Len(result.val.body) > 4
    /\ SubSeq(result.val.body, 1, 3) = <<";", "\"", "(">>

====
